---- MODULE Spec2Model ----
(***************************************************************************)
(* Model of the yield_pilot Anchor program                                 *)
(* (programs/yield_pilot/src/lib.rs): one YieldState account slot, the two *)
(* instructions initialize and update_yield, and the account constraints   *)
(* of their Accounts structs.  Every instruction is one atomic step: the   *)
(* accounts are validated and loaded, the handler runs, and the account is *)
(* written back only when the handler returns Ok.                          *)
(***************************************************************************)
EXTENDS Integers, Naturals, Sequences, FiniteSets, TLC

\* ---- bounds of the model ----
NumIdentities == 2
MaxCalls == 3

\* ---- widths of the two value fields (u8, u16) ----
U8_MAX == 255
U16_MAX == 65535

\* Signers that can invoke the program.
Identities == 1..NumIdentities
\* Values supplied to update_yield: both extremes and the spec's scenario values.
ProtocolInputs == {0, 3, 7, U8_MAX}
ApyInputs == {0, 550, U16_MAX}

\* Pubkey::default(): the authority bytes of a freshly allocated, zero-filled account.
DefaultPubkey == 0

VARIABLES
    slot,      \* the storage slot of the state account
    result,    \* outcome of the most recent instruction
    calls      \* the instructions invoked so far, inputs only

vars == <<slot, result, calls>>

\* A slot with no account allocated.
Uninitialized == [status |-> "Uninitialized"]

\* #[account] pub struct YieldState
YieldState(authority, current_protocol, current_apy_bps) ==
    [status |-> "Active",
     authority |-> authority,
     current_protocol |-> current_protocol,
     current_apy_bps |-> current_apy_bps]

Results == {"None", "Ok", "Unauthorized", "AccountInUse", "AccountNotInitialized"}

Call(op, signer, p, a) == [op |-> op, signer |-> signer, p |-> p, a |-> a]

\* ---- Accounts structs ----

\* mutant: init_if_needed, an occupied slot is accepted and handed to the handler
Initialize_try_accounts_if_needed(s, signer) ==
    IF s.status = "Uninitialized"
    THEN [ok |-> TRUE, state |-> YieldState(DefaultPubkey, 0, 0), authority |-> signer]
    ELSE [ok |-> TRUE, state |-> s, authority |-> signer]

\* Initialize<'info>: state is #[account(init, ...)], so the slot must be
\* empty; it is allocated zero-filled.  authority is the Signer.
Initialize_try_accounts(s, signer) ==
    IF s.status = "Uninitialized"
    THEN [ok |-> TRUE, state |-> YieldState(DefaultPubkey, 0, 0), authority |-> signer]
    ELSE [ok |-> FALSE]

\* mutant: an empty slot is created lazily for the signer
UpdateYield_try_accounts_lazy(s, signer) ==
    IF s.status = "Active"
    THEN [ok |-> TRUE, state |-> s, authority |-> signer]
    ELSE [ok |-> TRUE, state |-> YieldState(signer, 0, 0), authority |-> signer]

\* UpdateYield<'info>: state is Account<'info, YieldState>, so the slot must
\* hold a YieldState account.  authority is the Signer.
UpdateYield_try_accounts(s, signer) ==
    IF s.status = "Active"
    THEN [ok |-> TRUE, state |-> s, authority |-> signer]
    ELSE [ok |-> FALSE]

\* mutant: the account is closed on exit
UpdateYield_exit_close(state) == Uninitialized

\* UpdateYield.state is #[account(mut)] without close: the account is
\* written back on exit.
UpdateYield_exit(state) == state

\* ---- handlers ----

\* mutant: the authority is not stored
initialize_no_authority(ctx) ==
    [result |-> "Ok",
     state |-> [ctx.state EXCEPT !.current_protocol = 0, !.current_apy_bps = 0]]

\* pub fn initialize(ctx: Context<Initialize>) -> Result<()>
initialize(ctx) ==
    [result |-> "Ok",
     state |-> [ctx.state EXCEPT !.authority = ctx.authority,
                                 !.current_protocol = 0,
                                 !.current_apy_bps = 0]]

\* mutant: the require_keys_eq! check is missing
update_yield_no_check(ctx, new_protocol, new_apy_bps) ==
    [result |-> "Ok",
     state |-> [ctx.state EXCEPT !.current_protocol = new_protocol,
                                 !.current_apy_bps = new_apy_bps]]

\* mutant: current_apy_bps is not written
update_yield_no_apy(ctx, new_protocol, new_apy_bps) ==
    IF ctx.state.authority # ctx.authority
    THEN [result |-> "Unauthorized", state |-> ctx.state]
    ELSE [result |-> "Ok",
          state |-> [ctx.state EXCEPT !.current_protocol = new_protocol]]

\* mutant: the signer becomes the authority
update_yield_takeover(ctx, new_protocol, new_apy_bps) ==
    [result |-> "Ok",
     state |-> [ctx.state EXCEPT !.authority = ctx.authority]]

\* mutant: the rate is added to the stored rate
update_yield_accumulate(ctx, new_protocol, new_apy_bps) ==
    IF ctx.state.authority # ctx.authority
    THEN [result |-> "Unauthorized", state |-> ctx.state]
    ELSE [result |-> "Ok",
          state |-> [ctx.state EXCEPT
                        !.current_protocol = new_protocol,
                        !.current_apy_bps = (@ + new_apy_bps) % (U16_MAX + 1)]]

\* mutant: a zero rate is taken as "keep the stored rate"
update_yield_zero_keeps(ctx, new_protocol, new_apy_bps) ==
    IF ctx.state.authority # ctx.authority
    THEN [result |-> "Unauthorized", state |-> ctx.state]
    ELSE [result |-> "Ok",
          state |-> [ctx.state EXCEPT
                        !.current_protocol = new_protocol,
                        !.current_apy_bps = IF new_apy_bps = 0 THEN @ ELSE new_apy_bps]]

\* mutant: the rate only ever rises
update_yield_max(ctx, new_protocol, new_apy_bps) ==
    IF ctx.state.authority # ctx.authority
    THEN [result |-> "Unauthorized", state |-> ctx.state]
    ELSE [result |-> "Ok",
          state |-> [ctx.state EXCEPT
                        !.current_protocol = IF new_apy_bps > ctx.state.current_apy_bps
                                             THEN new_protocol ELSE @,
                        !.current_apy_bps = IF new_apy_bps > @ THEN new_apy_bps ELSE @]]

\* pub fn update_yield(ctx: Context<UpdateYield>, new_protocol: u8, new_apy_bps: u16)
update_yield(ctx, new_protocol, new_apy_bps) ==
    IF ctx.state.authority # ctx.authority
    THEN [result |-> "Unauthorized", state |-> ctx.state]
    ELSE [result |-> "Ok",
          state |-> [ctx.state EXCEPT !.current_protocol = new_protocol,
                                      !.current_apy_bps = new_apy_bps]]

\* ---- state machine ----

Init ==
    /\ slot = Uninitialized
    /\ result = "None"
    /\ calls = <<>>

\* The initialize instruction, invoked by signer.
Initialize(signer) ==
    /\ Len(calls) < MaxCalls
    /\ calls' = Append(calls, Call("initialize", signer, 0, 0))
    /\ LET ctx == Initialize_try_accounts(slot, signer) IN
       IF ~ctx.ok
       THEN /\ result' = "AccountInUse"
            /\ slot' = slot
       ELSE LET r == initialize(ctx) IN
            /\ result' = r.result
            /\ slot' = IF r.result = "Ok" THEN r.state ELSE slot

\* The update_yield instruction, invoked by signer with the two new values.
UpdateYield(signer, new_protocol, new_apy_bps) ==
    /\ Len(calls) < MaxCalls
    /\ calls' = Append(calls, Call("update_yield", signer, new_protocol, new_apy_bps))
    /\ LET ctx == UpdateYield_try_accounts(slot, signer) IN
       IF ~ctx.ok
       THEN /\ result' = "AccountNotInitialized"
            /\ slot' = slot
       ELSE LET r == update_yield(ctx, new_protocol, new_apy_bps) IN
            /\ result' = r.result
            /\ slot' = IF r.result = "Ok" THEN UpdateYield_exit(r.state) ELSE slot

Next ==
    \/ \E signer \in Identities : Initialize(signer)
    \/ \E signer \in Identities, p \in ProtocolInputs, a \in ApyInputs :
          UpdateYield(signer, p, a)

Spec == Init /\ [][Next]_vars

TypeOK ==
    /\ result \in Results
    /\ Len(calls) <= MaxCalls
    /\ \/ slot = Uninitialized
       \/ /\ slot.status = "Active"
          /\ slot.current_protocol \in 0..U8_MAX
          /\ slot.current_apy_bps \in 0..U16_MAX


\* ---- reading the call history ----

\* The instruction invoked by the step.
NewCall == calls'[Len(calls')]

LastCall == calls[Len(calls)]

IsActive == slot.status = "Active"

InitializeCalls == {i \in DOMAIN calls : calls[i].op = "initialize"}

\* Position of the first initialize call: the one that finds the slot empty.
CreatedAt == CHOOSE i \in InitializeCalls : \A j \in InitializeCalls : i <= j

\* update_yield calls made on the created record by its authority.
Writers ==
    {i \in DOMAIN calls : /\ i > CreatedAt
                          /\ calls[i].op = "update_yield"
                          /\ calls[i].signer = slot.authority}

\* update_yield calls made on the created record by somebody else.
Intruders ==
    {i \in DOMAIN calls : /\ i > CreatedAt
                          /\ calls[i].op = "update_yield"
                          /\ calls[i].signer # slot.authority}

\* The values of the most recent call of the authority, (0, 0) if there is none.
LastWrite ==
    IF Writers = {} THEN <<0, 0>>
    ELSE LET i == CHOOSE w \in Writers : \A j \in Writers : j <= w
         IN <<calls[i].p, calls[i].a>>

Stored == <<slot.current_protocol, slot.current_apy_bps>>

\* ---- properties ----

\* C1: update_yield on an Active record by a signer other than its authority
\* fails with Unauthorized and leaves authority, current_protocol and
\* current_apy_bps as they were.
C1_UnauthorizedIsNoOp ==
    [][(/\ IsActive
        /\ NewCall.op = "update_yield"
        /\ NewCall.signer # slot.authority)
       => (result' = "Unauthorized" /\ slot' = slot)]_vars

C1_Witness ==
    /\ IsActive
    /\ Len(calls) >= 3
    /\ LastCall.op = "update_yield"
    /\ LastCall.signer # slot.authority
    /\ result = "Unauthorized"
    /\ Stored = <<3, 550>>
    /\ LastCall.p = U8_MAX /\ LastCall.a = U16_MAX

\* C2: update_yield on an Active record by its authority succeeds for every
\* pair of values, extremes included, and stores exactly that pair.
C2_AuthorizedApplies ==
    [][(/\ IsActive
        /\ NewCall.op = "update_yield"
        /\ NewCall.signer = slot.authority)
       => (/\ result' = "Ok"
           /\ slot' = YieldState(slot.authority, NewCall.p, NewCall.a))]_vars

C2_Witness ==
    /\ IsActive
    /\ Len(calls) >= 2
    /\ LastCall.op = "update_yield"
    /\ LastCall.signer = slot.authority
    /\ result = "Ok"
    /\ LastCall.p = U8_MAX /\ LastCall.a = U16_MAX
    /\ Stored = <<U8_MAX, U16_MAX>>

\* C3: initialize on an Uninitialized slot succeeds for every signer and
\* yields an Active record with authority = signer, current_protocol = 0 and
\* current_apy_bps = 0.
C3_InitializeCreates ==
    [][(slot.status = "Uninitialized" /\ NewCall.op = "initialize")
       => (result' = "Ok" /\ slot' = YieldState(NewCall.signer, 0, 0))]_vars

C3_Witness ==
    /\ Len(calls) >= 1
    /\ LastCall.op = "initialize"
    /\ InitializeCalls = {Len(calls)}
    /\ result = "Ok"
    /\ slot = YieldState(NumIdentities, 0, 0)
    /\ LastCall.signer = NumIdentities

\* C4: in every state reached from a created record by update_yield calls
\* only, the authority is the identity that created the record.
C4_AuthorityImmutable ==
    (/\ IsActive
     /\ \A i \in DOMAIN calls : i > CreatedAt => calls[i].op = "update_yield")
    => slot.authority = calls[CreatedAt].signer

C4_Witness ==
    /\ IsActive
    /\ InitializeCalls = {1}
    /\ Writers # {}
    /\ Intruders # {}
    /\ slot.authority = calls[1].signer

\* C5: an update_yield call that repeats the call just made (same signer,
\* same values) leaves the record and the outcome as the first one left them.
C5_RepeatIsIdempotent ==
    [][(/\ Len(calls) >= 1
        /\ IsActive
        /\ NewCall.op = "update_yield"
        /\ NewCall = LastCall)
       => (slot' = slot /\ result' = result)]_vars

C5_Witness ==
    /\ IsActive
    /\ Len(calls) >= 3
    /\ LastCall.op = "update_yield"
    /\ calls[Len(calls) - 1] = LastCall
    /\ LastCall.signer = slot.authority
    /\ result = "Ok"
    /\ Stored = <<3, 550>>

\* C6: the stored pair (current_protocol, current_apy_bps) of an Active
\* record is (0, 0) from creation or the pair of one single update_yield call
\* of the authority; the two fields never come from different calls.
C6_PairFromOneCall ==
    IsActive =>
        \/ Stored = <<0, 0>>
        \/ \E i \in Writers : Stored = <<calls[i].p, calls[i].a>>

C6_Witness ==
    /\ IsActive
    /\ Cardinality(Writers) = 2
    /\ \E i \in Writers, j \in Writers :
          /\ i < j
          /\ calls[i].p # calls[j].p /\ calls[i].a # calls[j].a
          /\ calls[i].p # 0 /\ calls[i].a # 0
          /\ calls[j].a = 0
          /\ Stored = <<calls[j].p, calls[j].a>>

\* C7: Active is terminal: a record that is Active is Active after every
\* instruction, initialize or update_yield, successful or failing.
C7_ActiveIsTerminal ==
    [][IsActive => slot'.status = "Active"]_vars

C7_Witness ==
    /\ IsActive
    /\ \E i \in InitializeCalls : i > CreatedAt
    /\ Writers # {}

\* C8: initialize on a slot that holds an Active record fails, whoever signs,
\* and leaves authority, current_protocol and current_apy_bps as they were.
C8_ReinitializeRejected ==
    [][(IsActive /\ NewCall.op = "initialize")
       => (result' # "Ok" /\ slot' = slot)]_vars

C8_Witness ==
    /\ IsActive
    /\ Len(calls) >= 3
    /\ LastCall.op = "initialize"
    /\ LastCall.signer # slot.authority
    /\ result = "AccountInUse"
    /\ Stored = <<3, 550>>

\* C9: the stored pair of an Active record is that of the most recent
\* update_yield call signed by the authority, (0, 0) if there is none; calls
\* of other signers and earlier calls of the authority leave no trace.
C9_LastWriterWins ==
    IsActive => Stored = LastWrite

C9_Witness ==
    /\ IsActive
    /\ Cardinality(Writers) = 2
    /\ \E i \in Writers, j \in Writers :
          /\ i < j
          /\ calls[i].a > calls[j].a
          /\ calls[i].p # calls[j].p
          /\ Stored = <<calls[j].p, calls[j].a>>

\* C10: update_yield on an Uninitialized slot never succeeds and leaves the
\* slot Uninitialized, so the authority of every Active record is the signer
\* of the initialize call that created it.
C10_OnlyInitializeCreates ==
    /\ [][(slot.status = "Uninitialized" /\ NewCall.op = "update_yield")
          => (result' # "Ok" /\ slot' = Uninitialized)]_vars
    /\ [](IsActive =>
            /\ InitializeCalls # {}
            /\ slot.authority = calls[CreatedAt].signer)

C10_Witness ==
    /\ IsActive
    /\ Len(calls) >= 3
    /\ calls[1].op = "update_yield"
    /\ calls[2].op = "initialize"
    /\ calls[1].signer = calls[2].signer
    /\ slot.authority = calls[2].signer
    /\ Writers # {}

====
